---- MODULE Spec2Model ----
(***************************************************************************)
(* Model of the antivirus core of the umbrella Maya plugin: BackupCleaner  *)
(* (src/antivirus/cleaner.rs), PatternDetector (src/antivirus/detector.rs),*)
(* FileSystemScanner (src/antivirus/scanner.rs), AntivirusEngine           *)
(* (src/antivirus/mod.rs) and the directory scan of the C API              *)
(* (src/ffi/c_api.rs).                                                     *)
(*                                                                         *)
(* Text is a sequence of one-character strings, so that str::lines,        *)
(* str::to_lowercase, str::contains and format! are computed character by  *)
(* character.  A path is a record [dir, name]: dir is the sequence of      *)
(* directory components, name the file name as text.                       *)
(***************************************************************************)
EXTENDS Integers, Sequences, FiniteSets, TLC

VARIABLES
    files,          \* the filesystem's regular files: path -> content
    dirs,           \* the directories that exist
    clock,          \* the latest reading of the system clock, in seconds
    call,           \* per caller: the position and locals of its clean() call
    log,            \* per caller: the filesystem writes its current call made
    pre,            \* per caller: the files as they were when its call began
    ncalls,         \* clean() calls begun so far
    last,           \* the latest completed clean() call (path, in_place, result)
    backups,        \* every backup completed so far: its path and content
    in_content,     \* clean_file_content: the text handed in
    out,            \* clean_file_content: what it returned for in_content
    stage,          \* clean_file_content: "input" | "cleaned"
    patterns,       \* PatternDetector: its catalog, a sequence of ThreatPattern
    scanned,        \* the file handed to detect(): its content, or None
    detection,      \* what detect() returned
    dpc,            \* detect(): "idle" | "done"
    tree,           \* the directory tree the scanners walk: path -> node
    walk,           \* FileSystemScanner::scan: its position, arguments and locals
    visits,         \* the directories scan_directory was entered with, in order,
                    \* and whether a directory or an entry could not be read
    summary,        \* what an AntivirusEngine or C API scan call returned
    commands,       \* CommandRegistry: name -> the command registered under it
    ops             \* the calls made on the registry so far and their results

vars == <<files, dirs, clock, call, log, pre, ncalls, last, backups,
          in_content, out, stage, patterns, scanned, detection, dpc,
          tree, walk, visits, summary, commands, ops>>
fsVars == <<files, dirs, clock, call, log, pre, ncalls, last, backups>>
contentVars == <<in_content, out, stage>>
detVars == <<patterns, scanned, detection, dpc>>
scanVars == <<tree, walk, visits, summary>>
regVars == <<commands, ops>>

-----------------------------------------------------------------------------
(* Bounds of the model *)

\* clean() calls in one behaviour
MaxCalls == 2
\* the clock runs from 0 to MaxClock
MaxClock == 1
\* fragments concatenated into an input text of clean_file_content
MaxFrags == 4
\* fragments concatenated into the content of a file handed to detect()
MaxDetFrags == 3
\* add_pattern calls in one behaviour
MaxCustom == 1
\* symbolic links the system follows while it resolves one path; a path
\* through more of them does not resolve (ELOOP)
MaxSymlinks == 2
\* calls made on one CommandRegistry in one behaviour
MaxOps == 4

-----------------------------------------------------------------------------
(* Text *)

LF == "\n"
CR == "\r"

UpperCase == <<"A","B","C","D","E","F","G","H","I","J","K","L","M",
               "N","O","P","Q","R","S","T","U","V","W","X","Y","Z">>
LowerCase == <<"a","b","c","d","e","f","g","h","i","j","k","l","m",
               "n","o","p","q","r","s","t","u","v","w","x","y","z">>

\* char::to_lowercase, on the characters of the model (ASCII)
char_to_lowercase(c) ==
    IF \E i \in 1..26 : UpperCase[i] = c
    THEN LowerCase[CHOOSE i \in 1..26 : UpperCase[i] = c]
    ELSE c

\* str::to_lowercase
to_lowercase(s) == [i \in 1..Len(s) |-> char_to_lowercase(s[i])]

\* str::contains(&str): pat occurs in s as a contiguous substring
contains(s, pat) ==
    \E i \in 0..(Len(s) - Len(pat)) : SubSeq(s, i + 1, i + Len(pat)) = pat

\* str::split_inclusive('\n'): the pieces of s, each ending with its LF,
\* the last one without when s does not end in LF
RECURSIVE split_inclusive(_)
split_inclusive(s) ==
    IF s = <<>> THEN <<>>
    ELSE IF \E i \in 1..Len(s) : s[i] = LF
         THEN LET i == CHOOSE k \in 1..Len(s) :
                          s[k] = LF /\ \A j \in 1..(k - 1) : s[j] # LF
              IN  <<SubSeq(s, 1, i)>> \o split_inclusive(SubSeq(s, i + 1, Len(s)))
         ELSE <<s>>

\* the map of str::lines: strip the piece's LF, and then one CR before it
strip_line_ending(piece) ==
    IF piece # <<>> /\ piece[Len(piece)] = LF
    THEN LET l == SubSeq(piece, 1, Len(piece) - 1)
         IN  IF l # <<>> /\ l[Len(l)] = CR THEN SubSeq(l, 1, Len(l) - 1) ELSE l
    ELSE piece

\* str::lines
lines(s) ==
    LET pieces == split_inclusive(s)
    IN  [i \in 1..Len(pieces) |-> strip_line_ending(pieces[i])]

Digits == <<"0","1","2","3","4","5","6","7","8","9">>

\* format!("{}", n) for an unsigned integer: its decimal digits
RECURSIVE fmt_u64(_)
fmt_u64(n) ==
    IF n < 10 THEN <<Digits[n + 1]>>
    ELSE fmt_u64(n \div 10) \o <<Digits[(n % 10) + 1]>>

-----------------------------------------------------------------------------
(* BackupCleaner::clean_file_content *)

os_system       == <<"o","s",".","s","y","s","t","e","m">>
subprocess_call == <<"s","u","b","p","r","o","c","e","s","s",".","c","a","l","l">>
eval_paren      == <<"e","v","a","l","(">>
exec_paren      == <<"e","x","e","c","(">>

\* "# REMOVED BY UMBRELLA: "
RemovedPrefix ==
    <<"#"," ","R","E","M","O","V","E","D"," ","B","Y"," ",
      "U","M","B","R","E","L","L","A",":"," ">>

\* a mutant of is_suspicious_line: the line is searched as it is written,
\* not lower-cased
is_suspicious_line_case_sensitive(line) ==
    \/ contains(line, os_system)
    \/ contains(line, subprocess_call)
    \/ contains(line, eval_paren)
    \/ contains(line, exec_paren)

\* the condition of the if in the loop of clean_file_content
is_suspicious_line(line) ==
    LET line_lower == to_lowercase(line)
    IN  \/ contains(line_lower, os_system)
        \/ contains(line_lower, subprocess_call)
        \/ contains(line_lower, eval_paren)
        \/ contains(line_lower, exec_paren)

\* a mutant of neutralize_line: the suspicious line is deleted outright
neutralize_line_deleting(line) == <<>>

\* format!("# REMOVED BY UMBRELLA: {}\n", line)
neutralize_line(line) == RemovedPrefix \o line \o <<LF>>

\* push_str(line); push('\n')
keep_line(line) == line \o <<LF>>

\* the body of the loop over content.lines(), from line i on
RECURSIVE clean_loop(_, _, _)
clean_loop(ls, i, acc) ==
    IF i > Len(ls) THEN acc
    ELSE IF is_suspicious_line(ls[i])
         THEN clean_loop(ls, i + 1,
                  [cleaned_content |-> acc.cleaned_content \o neutralize_line(ls[i]),
                   was_modified |-> TRUE])
         ELSE clean_loop(ls, i + 1,
                  [cleaned_content |-> acc.cleaned_content \o keep_line(ls[i]),
                   was_modified |-> acc.was_modified])

\* a mutant of clean_file_content: was_modified is set whatever the lines are
clean_file_content_always_modified(content) ==
    [clean_loop(lines(content), 1, [cleaned_content |-> <<>>, was_modified |-> FALSE])
        EXCEPT !.was_modified = TRUE]

\* clean_file_content(content) -> (cleaned_content, was_modified)
clean_file_content(content) ==
    clean_loop(lines(content), 1, [cleaned_content |-> <<>>, was_modified |-> FALSE])

-----------------------------------------------------------------------------
(* Paths and options *)

None == [some |-> FALSE]
Some(x) == [some |-> TRUE, val |-> x]

Path(dir, name) == [dir |-> dir, name |-> name]

\* the index of the last '.' of a file name, 0 when it has none
last_dot(name) ==
    IF \E i \in 1..Len(name) : name[i] = "."
    THEN CHOOSE i \in 1..Len(name) :
             name[i] = "." /\ \A j \in (i + 1)..Len(name) : name[j] # "."
    ELSE 0

\* Path::extension: the text after the last '.', unless there is no '.' or
\* nothing stands before it
extension(path) ==
    LET i == last_dot(path.name)
    IN  IF i <= 1 THEN None ELSE Some(SubSeq(path.name, i + 1, Len(path.name)))

\* Path::file_stem
file_stem(path) ==
    LET i == last_dot(path.name)
    IN  IF i <= 1 THEN path.name ELSE SubSeq(path.name, 1, i - 1)

\* PathBuf::set_extension(ext)
set_extension(path, ext) == Path(path.dir, file_stem(path) \o <<".">> \o ext)

ext_py  == <<"p","y">>
ext_mel == <<"m","e","l">>
ext_ma  == <<"m","a">>
ext_mb  == <<"m","b">>
ext_cleaned == <<"c","l","e","a","n","e","d">>

\* a mutant of can_clean: one more extension is let through
can_clean_txt(file_path) ==
    LET e == extension(file_path)
    IN  e.some /\ to_lowercase(e.val) \in {ext_py, ext_mel, ext_ma, ext_mb, <<"t","x","t">>}

\* Cleaner::can_clean
can_clean(file_path) ==
    LET e == extension(file_path)
    IN  e.some /\ to_lowercase(e.val) \in {ext_py, ext_mel, ext_ma, ext_mb}

\* CleanOptions
CleanOptions ==
    [create_backup : BOOLEAN,
     backup_directory : {None, Some(<<"bk">>)},
     remove_original : BOOLEAN,
     in_place : BOOLEAN]

\* CleanOptions::default()
default_options ==
    [create_backup |-> TRUE, backup_directory |-> None,
     remove_original |-> FALSE, in_place |-> TRUE]

\* CleanResult::success / failed / already_clean, and the Err of the Result
Ok(status, backup_path) ==
    [ok |-> TRUE, status |-> status, backup_path |-> backup_path]
Err(message) == [ok |-> FALSE, message |-> message]
NoResult == [ok |-> FALSE, message |-> "pending"]
\* an Err whose message ends with the io::Error e it was made from
ErrIo(message, e) == [ok |-> FALSE, message |-> message, io |-> e]

\* fs::create_dir: a directory that exists is an error
create_dir(dir_exists, fault) ==
    IF fault THEN Some("Other")
    ELSE IF dir_exists THEN Some("AlreadyExists") ELSE None

\* fs::create_dir_all, line 159: the io::Error it returns, None for success;
\* a directory that exists by now, whoever made it, is success
create_dir_all(dir_exists, fault) == IF fault THEN Some("Other") ELSE None

\* create_backup, "Determine backup directory"
backup_dir_of(file_path, options) ==
    IF options.backup_directory.some
    THEN options.backup_directory.val
    ELSE file_path.dir \o <<"_virus_backup">>

\* create_backup, format!("{}_{}", timestamp, file_name) joined to backup_dir
backup_path_of(backup_dir, timestamp, file_path) ==
    Path(backup_dir, fmt_u64(timestamp) \o <<"_">> \o file_path.name)

\* a mutant of write_target: the sibling keeps the source's name
write_target_same(file_path, options) == file_path

\* clean, "Write cleaned content": the path the cleaned content goes to
write_target(file_path, options) ==
    IF options.in_place THEN file_path ELSE set_extension(file_path, ext_cleaned)

\* a mutant of next_step: the write follows at once, without the backup
next_step_no_backup(options) == "write"

\* clean, lines 236-241, "Create backup if requested": what follows the
\* was_modified test
next_step(options) == IF options.create_backup THEN "create_backup" ELSE "write"

\* the directory and every ancestor of it (fs::create_dir_all creates them)
ancestors(dir) == {SubSeq(dir, 1, k) : k \in 1..Len(dir)}

-----------------------------------------------------------------------------
(* The filesystem the cleaner runs on, and its callers *)

d1 == <<"d1">>

a_py  == <<"a",".","p","y">>
a_MEL == <<"a",".","M","E","L">>
a_txt == <<"a",".","t","x","t">>
b_py  == <<"b",".","p","y">>
a_bare == <<"a">>

\* file contents at the start: no marker; a marker on the last line, which
\* has no line ending; a marker in mixed case on a CRLF line
Benign    == <<"x", LF, "y", LF>>
Malicious == <<"x", LF>> \o os_system
EvalCrLf  == <<"E","v","a","L","(","1",")", CR, LF>>

\* the paths clean() is called with: supported files, the same name in another
\* directory, an upper-case extension, an unsupported extension, no extension,
\* a file that does not exist
CleanTargets ==
    {Path(d1, a_py), Path(d1, a_MEL), Path(d1, a_txt), Path(d1, a_bare), Path(d1, b_py)}

\* the callers of clean(); Spec runs caller 1 alone, one call after the other
Procs == {1, 2}

IdleCall ==
    [pc |-> "idle", file_path |-> Path(d1, a_py), options |-> default_options,
     content |-> <<>>, cleaned_content |-> <<>>, was_modified |-> FALSE,
     backup_dir |-> <<>>, backup_path |-> None, result |-> NoResult,
     prev |-> [valid |-> FALSE]]

\* Three files in d1, no backup directory yet; the caller holds one
\* CleanOptions value, any of them, and passes it to each of its calls.
InitFs ==
    /\ \E c \in {Benign, Malicious, EvalCrLf} :
           files = (Path(d1, a_py) :> c) @@ (Path(d1, a_MEL) :> EvalCrLf)
                   @@ (Path(d1, a_txt) :> Malicious)
    /\ dirs = {d1}
    /\ clock = 0
    /\ \E options \in CleanOptions :
           call = [p \in Procs |-> IF p = 1 THEN [IdleCall EXCEPT !.options = options]
                                   ELSE [IdleCall EXCEPT !.pc = "off"]]
    /\ log = [p \in Procs |-> <<>>]
    /\ pre = [p \in Procs |-> [files |-> files, dirs |-> dirs]]
    /\ ncalls = 0
    /\ last = [valid |-> FALSE]
    /\ backups = {}

\* the paths two threads call clean() with: one file both may ask for, and
\* an unsupported one
ConcurrentTargets == {Path(d1, a_py), Path(d1, a_txt)}

\* the options the two threads share: the backup directory is the default one
ConcurrentOptions ==
    {o \in CleanOptions : ~o.remove_original /\ ~o.backup_directory.some}

\* Two threads share one BackupCleaner and one CleanOptions value; each may
\* call clean() while the other's call is under way.
InitConcurrent ==
    /\ files = (Path(d1, a_py) :> Malicious) @@ (Path(d1, a_MEL) :> EvalCrLf)
               @@ (Path(d1, a_txt) :> Malicious)
    /\ dirs = {d1}
    /\ clock = 0
    /\ \E options \in ConcurrentOptions :
           call = [p \in Procs |-> [IdleCall EXCEPT !.options = options]]
    /\ log = [p \in Procs |-> <<>>]
    /\ pre = [p \in Procs |-> [files |-> files, dirs |-> dirs]]
    /\ ncalls = 0
    /\ last = [valid |-> FALSE]
    /\ backups = {}

\* Path::exists
exists(path) == path \in DOMAIN files

\* the files with the one at path holding content
with_file(path, content) ==
    [q \in DOMAIN files \cup {path} |-> IF q = path THEN content ELSE files[q]]

\* the file at path holds content afterwards, created or replaced
write_file(path, content) == files' = with_file(path, content)

\* what a write that fails part-way may leave of content: nothing, or its first half
partial(content) == {SubSeq(content, 1, k) : k \in {0, Len(content) \div 2}}

\* the call of p returns r, leaving the files as fs
Return(p, r, fs) ==
    /\ call' = [call EXCEPT ![p].pc = "done", ![p].result = r]
    /\ last' = [valid |-> TRUE, file_path |-> call[p].file_path,
                in_place |-> call[p].options.in_place, result |-> r,
                after |-> IF call[p].file_path \in DOMAIN fs
                          THEN Some(fs[call[p].file_path]) ELSE None]

\* clean(), lines 215-223: the entry, the can_clean and exists checks
Clean(p, file_path) ==
    /\ call[p].pc \in {"idle", "done"}
    /\ ncalls < MaxCalls
    /\ ncalls' = ncalls + 1
    /\ log' = [log EXCEPT ![p] = <<>>]
    /\ pre' = [pre EXCEPT ![p] = [files |-> files, dirs |-> dirs]]
    /\ LET options == call[p].options
           c == [IdleCall EXCEPT !.file_path = file_path, !.options = options,
                                 !.prev = last]
       IN  IF ~can_clean(file_path)
           THEN /\ call' = [call EXCEPT ![p] = [c EXCEPT !.pc = "done",
                                !.result = Ok("Failed", None)]]
                /\ last' = [valid |-> TRUE, file_path |-> file_path,
                            in_place |-> options.in_place,
                            result |-> Ok("Failed", None), after |-> None]
           ELSE IF ~exists(file_path)
           THEN /\ call' = [call EXCEPT ![p] = [c EXCEPT !.pc = "done",
                                !.result = Ok("Failed", None)]]
                /\ last' = [valid |-> TRUE, file_path |-> file_path,
                            in_place |-> options.in_place,
                            result |-> Ok("Failed", None), after |-> None]
           ELSE /\ call' = [call EXCEPT ![p] = [c EXCEPT !.pc = "read"]]
                /\ UNCHANGED last
    /\ UNCHANGED <<files, dirs, clock, backups, contentVars, detVars, scanVars, regVars>>

\* clean(), lines 225-241: read_to_string, clean_file_content, the
\* was_modified test and the create_backup test
ReadAndClean(p) ==
    /\ call[p].pc = "read"
    /\ \/ /\ TRUE    \* the I/O operation fails
          /\ Return(p, Err("Failed to read file"), files)
       \/ /\ TRUE    \* the I/O operation succeeds
          /\ IF ~exists(call[p].file_path)
             THEN Return(p, Err("Failed to read file"), files)
             ELSE LET content == files[call[p].file_path]
                      r == clean_file_content(content)
                  IN  IF ~r.was_modified
                      THEN /\ call' = [call EXCEPT ![p].pc = "done",
                                  ![p].content = content,
                                  ![p].cleaned_content = r.cleaned_content,
                                  ![p].result = Ok("AlreadyClean", None)]
                           /\ last' = [valid |-> TRUE,
                                       file_path |-> call[p].file_path,
                                       in_place |-> call[p].options.in_place,
                                       result |-> Ok("AlreadyClean", None),
                                       after |-> Some(content)]
                      ELSE /\ call' = [call EXCEPT
                                  ![p].pc = next_step(call[p].options),
                                  ![p].content = content,
                                  ![p].cleaned_content = r.cleaned_content,
                                  ![p].was_modified = TRUE]
                           /\ UNCHANGED last
    /\ UNCHANGED <<files, dirs, clock, log, pre, ncalls, backups, contentVars, detVars, scanVars, regVars>>

\* create_backup(), lines 141-158: the source exists test, the backup
\* directory and its exists test
CreateBackupEnter(p) ==
    /\ call[p].pc = "create_backup"
    /\ IF ~exists(call[p].file_path)
       THEN Return(p, Err("Source file does not exist"), files)
       ELSE LET backup_dir == backup_dir_of(call[p].file_path, call[p].options)
            IN  /\ call' = [call EXCEPT ![p].backup_dir = backup_dir,
                                ![p].pc = IF backup_dir \notin dirs
                                          THEN "create_dir_all" ELSE "copy"]
                /\ UNCHANGED last
    /\ UNCHANGED <<files, dirs, clock, log, pre, ncalls, backups, contentVars, detVars, scanVars, regVars>>

\* create_backup(), lines 159-160: fs::create_dir_all, which takes a
\* directory that exists by now as success
CreateDirAll(p) ==
    /\ call[p].pc = "create_dir_all"
    /\ \E fault \in BOOLEAN :    \* the I/O operation fails or not
           LET e == create_dir_all(call[p].backup_dir \in dirs, fault)
           IN  IF e.some
               THEN /\ Return(p, ErrIo("Failed to create backup directory", e.val),
                              files)
                    /\ UNCHANGED <<dirs, log>>
               ELSE /\ dirs' = dirs \cup ancestors(call[p].backup_dir)
                    /\ log' = [log EXCEPT ![p] = Append(@,
                                  [op |-> "mkdir", dir |-> call[p].backup_dir])]
                    /\ call' = [call EXCEPT ![p].pc = "copy"]
                    /\ UNCHANGED last
    /\ UNCHANGED <<files, clock, pre, ncalls, backups, contentVars, detVars, scanVars, regVars>>

\* create_backup(), lines 163-179: the timestamp, the backup path, fs::copy
CopyToBackup(p) ==
    /\ call[p].pc = "copy"
    /\ \E timestamp \in clock..MaxClock :
        LET backup_path == backup_path_of(call[p].backup_dir, timestamp, call[p].file_path)
            entry(done) == [op |-> "copy", path |-> backup_path,
                            existed |-> exists(backup_path), done |-> done]
        IN  /\ clock' = timestamp
            /\ \/ /\ TRUE    \* the I/O operation fails
                  /\ UNCHANGED backups
                  /\ \/ /\ Return(p, Err("Failed to create backup"), files)
                        /\ UNCHANGED <<files, log>>
                     \/ /\ exists(call[p].file_path)
                        /\ call[p].backup_dir \in dirs
                        /\ \E part \in partial(files[call[p].file_path]) :
                               /\ write_file(backup_path, part)
                               /\ Return(p, Err("Failed to create backup"),
                                         with_file(backup_path, part))
                        /\ log' = [log EXCEPT ![p] = Append(@, entry(FALSE))]
               \/ /\ TRUE    \* the I/O operation succeeds
                  /\ IF exists(call[p].file_path) /\ call[p].backup_dir \in dirs
                     THEN /\ write_file(backup_path, files[call[p].file_path])
                          /\ log' = [log EXCEPT ![p] = Append(@, entry(TRUE))]
                          /\ backups' = backups \cup
                                 {[path |-> backup_path,
                                   content |-> files[call[p].file_path]]}
                          /\ call' = [call EXCEPT ![p].pc = "write",
                                          ![p].backup_path = Some(backup_path)]
                          /\ UNCHANGED last
                     ELSE /\ Return(p, Err("Failed to create backup"), files)
                          /\ UNCHANGED <<files, log, backups>>
    /\ UNCHANGED <<dirs, pre, ncalls, contentVars, detVars, scanVars, regVars>>

\* clean(), lines 244-252, fs::write: File::create opens the target and
\* truncates it
WriteCreate(p) ==
    /\ call[p].pc = "write"
    /\ LET target == write_target(call[p].file_path, call[p].options)
       IN  \/ /\ TRUE    \* the I/O operation fails
              /\ Return(p, Err("Failed to write cleaned file"), files)
              /\ UNCHANGED <<files, log>>
           \/ /\ TRUE    \* the I/O operation succeeds
              /\ write_file(target, <<>>)
              /\ log' = [log EXCEPT ![p] = Append(@,
                            [op |-> "create", path |-> target, existed |-> exists(target)])]
              /\ call' = [call EXCEPT ![p].pc = "write_all"]
              /\ UNCHANGED last
    /\ UNCHANGED <<dirs, clock, pre, ncalls, backups, contentVars, detVars, scanVars, regVars>>

\* clean(), lines 244-259, fs::write: write_all of the cleaned content, and
\* the Success result
WriteAll(p) ==
    /\ call[p].pc = "write_all"
    /\ LET target == write_target(call[p].file_path, call[p].options)
       IN  \/ /\ TRUE    \* the I/O operation fails
              /\ \E part \in partial(call[p].cleaned_content) :
                     /\ write_file(target, part)
                     /\ Return(p, Err("Failed to write cleaned file"),
                               with_file(target, part))
              /\ UNCHANGED log
           \/ /\ TRUE    \* the I/O operation succeeds
              /\ write_file(target, call[p].cleaned_content)
              /\ log' = [log EXCEPT ![p] = Append(@,
                            [op |-> "write", path |-> target])]
              /\ Return(p, Ok("Success", call[p].backup_path),
                        with_file(target, call[p].cleaned_content))
    /\ UNCHANGED <<dirs, clock, pre, ncalls, backups, contentVars, detVars, scanVars, regVars>>

-----------------------------------------------------------------------------
(* clean_file_content on its own, over texts put together from fragments *)

Fragments ==
    {<<"x">>, <<LF>>, <<CR>>, os_system, <<"O","s",".","S","Y","S","T","E","M">>,
     <<"e","v","a","l">>, <<"(">>, <<"E","X","E","C","(">>, subprocess_call}

RECURSIVE Texts(_)
Texts(n) ==
    IF n = 0 THEN {<<>>}
    ELSE LET shorter == Texts(n - 1)
         IN  shorter \cup {t \o f : t \in shorter, f \in Fragments}

InitContent ==
    /\ in_content \in Texts(MaxFrags)
    /\ out = [cleaned_content |-> <<>>, was_modified |-> FALSE]
    /\ stage = "input"

\* let (cleaned_content, was_modified) = self.clean_file_content(&content)
CleanFileContent ==
    /\ stage = "input"
    /\ out' = clean_file_content(in_content)
    /\ stage' = "cleaned"
    /\ UNCHANGED <<in_content, fsVars, detVars, scanVars, regVars>>

-----------------------------------------------------------------------------
(* PatternDetector *)

\* r"import\s+(os|subprocess|sys|socket)"
pat_suspicious_import ==
    <<"i","m","p","o","r","t","\\","s","+","(","o","s","|","s","u","b","p",
      "r","o","c","e","s","s","|","s","y","s","|","s","o","c","k","e","t",
      ")">>

\* r"(os\.system|subprocess\.call|subprocess\.run)"
pat_file_system_access ==
    <<"(","o","s","\\",".","s","y","s","t","e","m","|","s","u","b","p","r",
      "o","c","e","s","s","\\",".","c","a","l","l","|","s","u","b","p","r",
      "o","c","e","s","s","\\",".","r","u","n",")">>

\* r"(socket\.|urllib|requests\.|http)"
pat_network_activity ==
    <<"(","s","o","c","k","e","t","\\",".","|","u","r","l","l","i","b","|",
      "r","e","q","u","e","s","t","s","\\",".","|","h","t","t","p",")">>

\* r"(eval\s*\(|exec\s*\()"
pat_eval_exec ==
    <<"(","e","v","a","l","\\","s","*","\\","(","|","e","x","e","c","\\",
      "s","*","\\","(",")">>

\* r"(os\.remove|os\.unlink|shutil\.rmtree)"
pat_file_deletion ==
    <<"(","o","s","\\",".","r","e","m","o","v","e","|","o","s","\\",".","u",
      "n","l","i","n","k","|","s","h","u","t","i","l","\\",".","r","m","t",
      "r","e","e",")">>

\* r"(_winreg|winreg)"
pat_registry_access ==
    <<"(","_","w","i","n","r","e","g","|","w","i","n","r","e","g",")">>

ThreatPattern(name, pattern, threat_level) ==
    [name |-> name, pattern |-> pattern, threat_level |-> threat_level]

\* load_default_patterns
default_patterns ==
    <<ThreatPattern("Suspicious Import", pat_suspicious_import, "Low"),
      ThreatPattern("File System Access", pat_file_system_access, "Medium"),
      ThreatPattern("Network Activity", pat_network_activity, "Medium"),
      ThreatPattern("Eval/Exec Usage", pat_eval_exec, "High"),
      ThreatPattern("File Deletion", pat_file_deletion, "High"),
      ThreatPattern("Registry Access", pat_registry_access, "Critical")>>

\* threat_level_priority with Critical ranked lowest
threat_level_priority_critical_lowest(level) ==
    CASE level = "None" -> 0
      [] level = "Low" -> 1
      [] level = "Medium" -> 2
      [] level = "High" -> 3
      [] level = "Critical" -> 0

\* threat_level_priority
threat_level_priority(level) ==
    CASE level = "None" -> 0
      [] level = "Low" -> 1
      [] level = "Medium" -> 2
      [] level = "High" -> 3
      [] level = "Critical" -> 4

\* confidence values, in tenths: 0.8 for a match, 1.0 for DetectionResult::clean
MatchConfidence == 8
CleanConfidence == 10

\* DetectionResult::clean
DetectionResult_clean ==
    [threat_level |-> "None", threat_type |-> <<"None">>,
     line_numbers |-> <<>>, confidence |-> CleanConfidence]

\* detect, line 212: line.to_lowercase().contains(&pattern.pattern.to_lowercase())
pattern_matches(line, pattern) ==
    contains(to_lowercase(line), to_lowercase(pattern.pattern))

\* detect, lines 209-225: the loops over the lines and, for each line, over
\* the patterns; k counts the (line, pattern) pairs done
RECURSIVE detect_loop(_, _, _, _)
detect_loop(ls, pats, k, acc) ==
    IF k >= Len(ls) * Len(pats) THEN acc
    ELSE LET line_num == k \div Len(pats)
             pattern == pats[(k % Len(pats)) + 1]
         IN  IF pattern_matches(ls[line_num + 1], pattern)
             THEN detect_loop(ls, pats, k + 1,
                    [detected_threats |-> Append(acc.detected_threats, pattern),
                     all_line_numbers |-> Append(acc.all_line_numbers, line_num + 1),
                     highest_threat |->
                         IF threat_level_priority(pattern.threat_level)
                              > threat_level_priority(acc.highest_threat)
                         THEN pattern.threat_level ELSE acc.highest_threat,
                     max_confidence |->
                         IF acc.max_confidence > MatchConfidence
                         THEN acc.max_confidence ELSE MatchConfidence])
             ELSE detect_loop(ls, pats, k + 1, acc)

\* detect, lines 203-241, on the content read
detect_content(pats, content) ==
    LET acc == detect_loop(lines(content), pats, 0,
                   [detected_threats |-> <<>>, all_line_numbers |-> <<>>,
                    highest_threat |-> "None", max_confidence |-> 0])
    IN  IF acc.detected_threats = <<>>
        THEN DetectionResult_clean
        ELSE [threat_level |-> acc.highest_threat,
              threat_type |-> [i \in 1..Len(acc.detected_threats) |->
                                   acc.detected_threats[i].name],
              line_numbers |-> acc.all_line_numbers,
              confidence |-> acc.max_confidence]

\* patterns a caller appends: one of level None, a marker of the cleaner, a
\* text in upper case
CustomPatterns ==
    {ThreatPattern("Print", <<"p","r","i","n","t">>, "None"),
     ThreatPattern("System Call", os_system, "Medium"),
     ThreatPattern("Registry", <<"W","I","N","R","E","G">>, "Critical")}

\* os.system('rm -rf /')
os_system_rm ==
    os_system \o <<"(","'","r","m"," ","-","r","f"," ","/","'",")">>

DetFragments ==
    {<<"x">>, <<LF>>, <<"p","r","i","n","t">>, os_system_rm,
     <<"(","_","W","i","n","R","e","g","|","w","i","n","r","e","g",")">>,
     pat_suspicious_import}

RECURSIVE DetTexts(_)
DetTexts(n) ==
    IF n = 0 THEN {<<>>}
    ELSE LET shorter == DetTexts(n - 1)
         IN  shorter \cup {t \o f : t \in shorter, f \in DetFragments}

InitDetect ==
    /\ patterns = default_patterns
    /\ scanned \in {None} \cup {Some(t) : t \in DetTexts(MaxDetFrags)}
    /\ detection = NoResult
    /\ dpc = "idle"

\* add_pattern
add_pattern(pattern) ==
    /\ dpc = "idle"
    /\ Len(patterns) < Len(default_patterns) + MaxCustom
    /\ patterns' = Append(patterns, pattern)
    /\ UNCHANGED <<scanned, detection, dpc, fsVars, contentVars, scanVars, regVars>>

\* detect
detect ==
    /\ dpc = "idle"
    /\ dpc' = "done"
    /\ IF ~scanned.some
       THEN detection' = Err("File does not exist")
       ELSE \/ detection' = Err("Failed to read file")
            \/ detection' = [ok |-> TRUE, val |-> detect_content(patterns, scanned.val)]
    /\ UNCHANGED <<patterns, scanned, fsVars, contentVars, scanVars, regVars>>

-----------------------------------------------------------------------------
(* The directory tree the scanners walk *)

\* A path is the sequence of its component names, each name a text.  A node
\* is a directory with its listing (the names read_dir yields, in the order
\* it yields them), a file with its content, or a symbolic link to a directory.
Dir(listing) == [kind |-> "dir", listing |-> listing]
File(content) == [kind |-> "file", content |-> content]
Symlink(target) == [kind |-> "symlink", target |-> target]

name_r == <<"r">>
name_s == <<"s">>
name_e == <<"e">>
name_l == <<"l">>
name_m == <<"m">>
b_MA == <<"b",".","M","A">>

\* r holds a.py, a.txt, a file without extension, the empty directory e and
\* the directory s; s holds b.MA and the link l back to r.  read_dir lists a
\* directory in an order of the system's choosing: forward or backward here.
Tree(backward) ==
    LET order(listing) == IF backward THEN [i \in 1..Len(listing) |->
                                               listing[Len(listing) + 1 - i]]
                          ELSE listing
    IN  (<<name_r>> :> Dir(order(<<a_py, name_s, a_txt, name_e, a_bare>>)))
        @@ (<<name_r, a_py>> :> File(EvalCrLf))
        @@ (<<name_r, a_txt>> :> File(Malicious))
        @@ (<<name_r, a_bare>> :> File(Benign))
        @@ (<<name_r, name_e>> :> Dir(<<>>))
        @@ (<<name_r, name_s>> :> Dir(order(<<b_MA, name_l>>)))
        @@ (<<name_r, name_s, b_MA>> :> File(Benign))
        @@ (<<name_r, name_s, name_l>> :> Symlink(<<name_r>>))

\* the paths the scans are called with: directories, files, a missing path
ScanTargets ==
    {<<name_r>>, <<name_r, name_e>>, <<name_r, name_s>>, <<name_r, a_py>>,
     <<name_r, a_txt>>, <<name_m>>}

\* path resolution: at is the node reached, rest the components still to
\* walk, links the symbolic links followed so far
RECURSIVE resolve(_, _, _)
resolve(at, rest, links) ==
    IF rest = <<>> THEN Some(at)
    ELSE LET next == Append(at, Head(rest))
         IN  IF next \notin DOMAIN tree THEN None
             ELSE IF tree[next].kind = "symlink"
             THEN IF links >= MaxSymlinks THEN None
                  ELSE resolve(tree[next].target, Tail(rest), links + 1)
             ELSE IF tree[next].kind = "file" /\ Tail(rest) # <<>> THEN None
             ELSE resolve(next, Tail(rest), links)

\* Path::metadata, which follows symbolic links
metadata(path) ==
    LET node == resolve(<<>>, path, 0)
    IN  IF node.some THEN Some(tree[node.val]) ELSE None

path_exists(path) == metadata(path).some
is_file(path) == metadata(path).some /\ metadata(path).val.kind = "file"
is_dir(path) == metadata(path).some /\ metadata(path).val.kind = "dir"

\* Path::is_symlink, which looks at the last component itself
is_symlink(path) ==
    LET parent == resolve(<<>>, SubSeq(path, 1, Len(path) - 1), 0)
    IN  /\ parent.some
        /\ Append(parent.val, path[Len(path)]) \in DOMAIN tree
        /\ tree[Append(parent.val, path[Len(path)])].kind = "symlink"

\* Metadata::len
file_len(path) == Len(metadata(path).val.content)

\* fs::read_dir with DirEntry::path: the paths of the entries of a directory
read_dir(dir_path) ==
    LET listing == metadata(dir_path).val.listing
    IN  [i \in 1..Len(listing) |-> Append(dir_path, listing[i])]

\* Path::new for a path of the tree, as the record extension() reads
as_path(path) == Path(SubSeq(path, 1, Len(path) - 1), path[Len(path)])

-----------------------------------------------------------------------------
(* Scanner and FileSystemScanner *)

\* ScanOptions::default
default_scan_options ==
    [recursive |-> TRUE,
     include_extensions |-> <<ext_ma, ext_mb, ext_mel, ext_py>>,
     exclude_extensions |-> <<>>,
     max_file_size |-> Some(100 * 1024 * 1024),
     follow_symlinks |-> FALSE]

\* the options scan is called with
ScanOptions ==
    [recursive : BOOLEAN,
     include_extensions : {<<ext_ma, ext_mb, ext_mel, ext_py>>, <<>>,
                           <<<<"P","Y">>, <<"t","x","t">>>>},
     exclude_extensions : {<<>>, <<ext_py>>, <<<<"T","x","t">>, ext_ma>>},
     max_file_size : {Some(100 * 1024 * 1024), Some(4)},
     follow_symlinks : BOOLEAN]

\* iter().any(|e| e.to_lowercase() == ext_str)
any_extension(extensions, ext_str) ==
    \E i \in 1..Len(extensions) : to_lowercase(extensions[i]) = ext_str

\* should_include_file with the include list deciding alone
should_include_file_include_wins(file_path, options) ==
    LET extension_ == extension(as_path(file_path))
        ext_str == to_lowercase(extension_.val)
    IN  IF /\ extension_.some
           /\ options.include_extensions # <<>>
        THEN any_extension(options.include_extensions, ext_str)
        ELSE TRUE

\* Scanner::should_include_file
should_include_file(file_path, options) ==
    LET extension_ == extension(as_path(file_path))
        ext_str == to_lowercase(extension_.val)
    IN  IF /\ extension_.some
           /\ options.include_extensions # <<>>
           /\ ~any_extension(options.include_extensions, ext_str)
        THEN FALSE
        ELSE IF extension_.some /\ any_extension(options.exclude_extensions, ext_str)
        THEN FALSE
        ELSE IF /\ options.max_file_size.some
                /\ metadata(file_path).some
                /\ metadata(file_path).val.kind = "file"
                /\ file_len(file_path) > options.max_file_size.val
        THEN FALSE
        ELSE TRUE

ScanResult(files_, directories_scanned, total_size) ==
    [ok |-> TRUE, files |-> files_, directories_scanned |-> directories_scanned,
     total_size |-> total_size]

\* scan_directory, line 180, without the test of options.recursive
descends_always(entry_path, options) == is_dir(entry_path)

\* scan_directory, line 180: entry_path.is_dir() && options.recursive
descends(entry_path, options) == is_dir(entry_path) /\ options.recursive

\* scan_directory, line 182, with symbolic links always followed
skips_symlink_never(entry_path, options) == FALSE

\* scan_directory, line 182: entry_path.is_symlink() && !options.follow_symlinks
skips_symlink(entry_path, options) ==
    is_symlink(entry_path) /\ ~options.follow_symlinks

\* a failed read that is passed over: the scan ends with what it has
read_failure_ignored(message) ==
    ScanResult(walk.files, walk.directories_scanned, walk.total_size)

\* map_err(..)? in scan_directory and the ? at each call of it: a failed
\* read ends the scan with the error
read_failure(message) == Err(message)

IdleWalk ==
    [pc |-> "idle", path |-> <<>>, options |-> default_scan_options,
     stack |-> <<>>, files |-> <<>>, directories_scanned |-> 0,
     total_size |-> 0, result |-> NoResult]

NoSummary == [op |-> "none"]

\* the tree lists its directories forward or backward
InitScan ==
    /\ \E backward \in BOOLEAN : tree = Tree(backward)
    /\ walk = IdleWalk
    /\ visits = [dirs |-> <<>>, failed |-> FALSE]
    /\ summary = NoSummary

\* the file at file_path is taken into files and total_size if it passes
\* should_include_file: scan lines 131-136, scan_directory lines 174-179
with_included(w, file_path) ==
    IF should_include_file(file_path, w.options)
    THEN [w EXCEPT !.files = Append(@, file_path),
                   !.total_size = @ + file_len(file_path)]
    ELSE w

\* FileSystemScanner::scan, lines 117-150, up to the call of scan_directory
scan(path, options) ==
    /\ walk.pc = "idle"
    /\ summary.op = "none"
    /\ LET w == [walk EXCEPT !.path = path, !.options = options]
       IN  IF ~path_exists(path)
           THEN walk' = [w EXCEPT !.pc = "done",
                                  !.result = Err("Path does not exist")]
           ELSE IF is_file(path)
           THEN LET v == with_included(w, path)
                IN  walk' = [v EXCEPT !.pc = "done",
                                 !.result = ScanResult(v.files, 0, v.total_size)]
           ELSE IF is_dir(path)
           THEN walk' = [w EXCEPT !.pc = "scan_directory",
                                  !.stack = <<[dir_path |-> path, entries |-> <<>>]>>]
           ELSE walk' = [w EXCEPT !.pc = "done", !.result = ScanResult(<<>>, 0, 0)]
    /\ UNCHANGED <<tree, visits, summary, fsVars, contentVars, detVars, regVars>>

\* scan_directory, lines 162-165: the count of the directory and read_dir
scan_directory ==
    /\ walk.pc = "scan_directory"
    /\ LET top == walk.stack[Len(walk.stack)]
           w == [walk EXCEPT !.directories_scanned = @ + 1]
       IN  \/ /\ TRUE    \* the I/O operation fails
              /\ walk' = [w EXCEPT !.pc = "done",
                              !.result = read_failure("Failed to read directory")]
              /\ visits' = [dirs |-> Append(visits.dirs, top.dir_path), failed |-> TRUE]
           \/ /\ TRUE    \* the I/O operation succeeds
              /\ walk' = [w EXCEPT !.pc = "entries",
                              !.stack[Len(walk.stack)].entries = read_dir(top.dir_path)]
              /\ visits' = [visits EXCEPT !.dirs = Append(@, top.dir_path)]
    /\ UNCHANGED <<tree, summary, fsVars, contentVars, detVars, regVars>>

\* scan_directory, lines 167-188: one turn of the loop over the entries
next_entry ==
    /\ walk.pc = "entries"
    /\ walk.stack[Len(walk.stack)].entries # <<>>
    /\ LET depth == Len(walk.stack)
           entry_path == Head(walk.stack[depth].entries)
           w == [walk EXCEPT !.stack[depth].entries = Tail(@)]
       IN  \/ /\ TRUE    \* the I/O operation fails
              /\ walk' = [w EXCEPT !.pc = "done",
                              !.result = read_failure("Failed to read directory entry")]
              /\ visits' = [visits EXCEPT !.failed = TRUE]
           \/ /\ TRUE    \* the I/O operation succeeds
              /\ IF is_file(entry_path)
                 THEN walk' = with_included(w, entry_path)
                 ELSE IF descends(entry_path, w.options)
                 THEN IF skips_symlink(entry_path, w.options)
                      THEN walk' = w
                      ELSE walk' = [w EXCEPT !.pc = "scan_directory",
                                       !.stack = Append(@, [dir_path |-> entry_path,
                                                            entries |-> <<>>])]
                 ELSE walk' = w
              /\ UNCHANGED visits
    /\ UNCHANGED <<tree, summary, fsVars, contentVars, detVars, regVars>>

\* scan_directory, line 190, and scan, lines 142-149: the loop over the
\* entries is over; the directory's caller goes on, or scan returns
end_directory ==
    /\ walk.pc = "entries"
    /\ walk.stack[Len(walk.stack)].entries = <<>>
    /\ LET stack == SubSeq(walk.stack, 1, Len(walk.stack) - 1)
       IN  IF stack = <<>>
           THEN walk' = [walk EXCEPT !.stack = stack, !.pc = "done",
                             !.result = ScanResult(walk.files, walk.directories_scanned,
                                                   walk.total_size)]
           ELSE walk' = [walk EXCEPT !.stack = stack]
    /\ UNCHANGED <<tree, visits, summary, fsVars, contentVars, detVars, regVars>>

-----------------------------------------------------------------------------
(* AntivirusEngine and the C API *)

\* AntivirusEngine::scan_file, on an engine made by AntivirusEngine::new
engine_scan_file(path) ==
    /\ walk.pc = "idle"
    /\ summary.op = "none"
    /\ summary' = [op |-> "scan_file", path |-> Some(path), ok |-> TRUE,
                   threats_found |-> 0, files_scanned |-> 1]
    /\ UNCHANGED <<tree, walk, visits, fsVars, contentVars, detVars, regVars>>

\* AntivirusEngine::scan_directory, on an engine made by AntivirusEngine::new
engine_scan_directory(path) ==
    /\ walk.pc = "idle"
    /\ summary.op = "none"
    /\ summary' = [op |-> "scan_directory", path |-> Some(path), ok |-> TRUE,
                   threats_found |-> 0, files_scanned |-> 10]
    /\ UNCHANGED <<tree, walk, visits, fsVars, contentVars, detVars, regVars>>

\* detect_threats_in_file: threat_patterns
threat_patterns ==
    <<<<"i","m","p","o","r","t"," ","o","s">>,
      <<"i","m","p","o","r","t"," ","s","u","b","p","r","o","c","e","s","s">>,
      <<"i","m","p","o","r","t"," ","s","y","s">>,
      <<"e","x","e","c","(">>,
      <<"e","v","a","l","(">>,
      <<"_","_","i","m","p","o","r","t","_","_">>,
      <<"g","e","t","a","t","t","r","(">>,
      <<"s","e","t","a","t","t","r","(">>,
      <<"s","y","s","t","e","m","(">>,
      <<"p","o","p","e","n","(">>,
      <<"p","y","t","h","o","n","(">>,
      <<"f","i","l","e"," ","-","d","e","l","e","t","e">>,
      <<"f","i","l","e"," ","-","r","e","m","o","v","e">>,
      <<"d","e","l","e","t","e","U","I">>,
      <<"u","r","l","l","i","b">>,
      <<"r","e","q","u","e","s","t","s">>,
      <<"s","o","c","k","e","t">>,
      <<"h","t","t","p">>,
      <<"m","e","l",".","e","v","a","l">>,
      <<"c","m","d","s",".","e","v","a","l","D","e","f","e","r","r","e","d">>,
      <<"s","c","r","i","p","t","J","o","b">>>>

\* detect_threats_in_file; unreadable holds the paths whose read fails:
\* read_to_string and read for a file, read_dir for a directory
detect_threats_in_file(file_path, unreadable) ==
    IF ~path_exists(file_path) THEN -1
    ELSE IF file_path \in unreadable \/ ~is_file(file_path) THEN -1
    ELSE LET content_lower == to_lowercase(metadata(file_path).val.content)
         IN  Cardinality({i \in 1..Len(threat_patterns) :
                 contains(content_lower, to_lowercase(threat_patterns[i]))})

\* scan_directory_for_threats, line 219: the extensions it scans
c_api_extensions ==
    {ext_ma, ext_mb, ext_mel, ext_py, <<"t","x","t">>, <<"j","s","o","n">>,
     <<"x","m","l">>}

\* an outcome added whatever its threat count
counted_all(got) == got

\* scan_directory_for_threats, lines 222 and 233: an outcome is added only
\* when its threat count is not the error value -1
counted(got) == IF got[1] >= 0 THEN got ELSE <<0, 0>>

\* (total_threats, files_scanned) with the outcome for one entry added
add_counts(counts, got) == <<counts[1] + got[1], counts[2] + got[2]>>

\* scan_directory_for_threats: <<threats_found, files_scanned>>; a directory
\* in unreadable cannot be listed
RECURSIVE scan_directory_for_threats(_, _)
RECURSIVE scan_entries_for_threats(_, _, _)
scan_directory_for_threats(dir_path, unreadable) ==
    IF ~path_exists(dir_path) \/ ~is_dir(dir_path) THEN <<-1, 0>>
    ELSE IF dir_path \in unreadable THEN <<0, 0>>
    ELSE scan_entries_for_threats(read_dir(dir_path), unreadable, <<0, 0>>)

\* scan_directory_for_threats, lines 212-239: the loop over the entries
scan_entries_for_threats(entries, unreadable, counts) ==
    IF entries = <<>> THEN counts
    ELSE LET entry_path == Head(entries)
         IN  scan_entries_for_threats(Tail(entries), unreadable,
               add_counts(counts,
                 IF is_file(entry_path)
                 THEN LET extension_ == extension(as_path(entry_path))
                      IN  IF /\ extension_.some
                             /\ to_lowercase(extension_.val) \in c_api_extensions
                          THEN counted(<<detect_threats_in_file(entry_path, unreadable), 1>>)
                          ELSE <<0, 0>>
                 ELSE IF is_dir(entry_path)
                 THEN counted(scan_directory_for_threats(entry_path, unreadable))
                 ELSE <<0, 0>>))

\* scan_directory_for_threats, lines 229-232: the paths it is called with,
\* itself included, while it scans dir_path
RECURSIVE directories_entered(_, _)
directories_entered(dir_path, unreadable) ==
    IF ~path_exists(dir_path) \/ ~is_dir(dir_path) THEN {}
    ELSE IF dir_path \in unreadable THEN {dir_path}
    ELSE LET entries == read_dir(dir_path)
         IN  {dir_path} \cup
             UNION {directories_entered(entries[i], unreadable) :
                        i \in {k \in 1..Len(entries) : is_dir(entries[k])}}

\* the paths whose read may fail during a scan through the C API
Unreadable ==
    {<<name_r>>, <<name_r, a_py>>, <<name_r, name_s>>, <<name_r, name_e>>}

\* umbrella_scan_directory; dir_path is None for a null pointer
umbrella_scan_directory(dir_path) ==
    /\ walk.pc = "idle"
    /\ summary.op = "none"
    /\ IF ~dir_path.some
       THEN summary' = [op |-> "umbrella_scan_directory", path |-> dir_path,
                        ok |-> TRUE, threats_found |-> -1, files_scanned |-> 0]
       ELSE \E unreadable \in SUBSET Unreadable :
                LET r == scan_directory_for_threats(dir_path.val, unreadable)
                IN  summary' = [op |-> "umbrella_scan_directory", path |-> dir_path,
                                ok |-> TRUE, threats_found |-> r[1],
                                files_scanned |-> r[2], unreadable |-> unreadable,
                                entered |-> directories_entered(dir_path.val,
                                                                unreadable)]
    /\ UNCHANGED <<tree, walk, visits, fsVars, contentVars, detVars, regVars>>

\* umbrella_scan_file; file_path is None for a null pointer
umbrella_scan_file(file_path) ==
    /\ walk.pc = "idle"
    /\ summary.op = "none"
    /\ IF ~file_path.some
       THEN summary' = [op |-> "umbrella_scan_file", path |-> file_path,
                        ok |-> TRUE, threats_found |-> -1, files_scanned |-> 0]
       ELSE \E unreadable \in SUBSET Unreadable :
                summary' = [op |-> "umbrella_scan_file", path |-> file_path,
                            ok |-> TRUE,
                            threats_found |->
                                detect_threats_in_file(file_path.val, unreadable),
                            files_scanned |-> 1, unreadable |-> unreadable]
    /\ UNCHANGED <<tree, walk, visits, fsVars, contentVars, detVars, regVars>>

-----------------------------------------------------------------------------
(* CommandRegistry, wrapper/command.rs *)

\* command names; the keys of the map are compared exactly
CommandNames == {"testcmd", "TestCmd", "duplicate"}

\* the commands handed to register: two distinct commands may bear one name
Commands == [name : CommandNames, id : 1..2]

\* CommandRegistry::new
InitRegistry ==
    /\ commands = << >>
    /\ ops = <<>>

\* a registry that takes every name for new
contains_key_never(map, name) == FALSE

\* HashMap::contains_key
contains_key(map, name) == name \in DOMAIN map

\* HashMap::insert: the value under name is replaced
insert(map, name, command) ==
    [n \in DOMAIN map \cup {name} |-> IF n = name THEN command ELSE map[n]]

\* HashMap::remove
remove(map, name) == [n \in DOMAIN map \ {name} |-> map[n]]

\* the orders in which the keys of a HashMap may be iterated
keys(map) ==
    {s \in [1..Cardinality(DOMAIN map) -> DOMAIN map] :
        \A i, j \in DOMAIN s : s[i] = s[j] => i = j}

\* register
register(command) ==
    /\ Len(ops) < MaxOps
    /\ LET name == command.name
       IN  IF contains_key(commands, name)
           THEN /\ ops' = Append(ops,
                      [op |-> "register", command |-> command,
                       result |-> Err("Command '" \o name \o "' is already registered")])
                /\ UNCHANGED commands
           ELSE /\ commands' = insert(commands, name, command)
                /\ ops' = Append(ops, [op |-> "register", command |-> command,
                                       result |-> [ok |-> TRUE]])
    /\ UNCHANGED <<fsVars, contentVars, detVars, scanVars>>

\* deregister
deregister(name) ==
    /\ Len(ops) < MaxOps
    /\ IF name \in DOMAIN commands
       THEN /\ commands' = remove(commands, name)
            /\ ops' = Append(ops, [op |-> "deregister", name |-> name,
                                   result |-> [ok |-> TRUE]])
       ELSE /\ ops' = Append(ops,
                  [op |-> "deregister", name |-> name,
                   result |-> Err("Command '" \o name \o "' is not registered")])
            /\ UNCHANGED commands
    /\ UNCHANGED <<fsVars, contentVars, detVars, scanVars>>

\* list_commands
list_commands ==
    /\ Len(ops) < MaxOps
    /\ \E names \in keys(commands) :
           ops' = Append(ops, [op |-> "list_commands", names |-> names,
                               result |-> [ok |-> TRUE]])
    /\ UNCHANGED <<commands, fsVars, contentVars, detVars, scanVars>>

-----------------------------------------------------------------------------
(* Specifications *)

IdleContent ==
    /\ in_content = <<>>
    /\ out = [cleaned_content |-> <<>>, was_modified |-> FALSE]
    /\ stage = "off"

IdleFs ==
    /\ files = << >>
    /\ dirs = {}
    /\ clock = 0
    /\ call = [p \in Procs |-> [IdleCall EXCEPT !.pc = "off"]]
    /\ log = [p \in Procs |-> <<>>]
    /\ pre = [p \in Procs |-> [files |-> << >>, dirs |-> {}]]
    /\ ncalls = 0
    /\ last = [valid |-> FALSE]
    /\ backups = {}

IdleDetect ==
    /\ patterns = default_patterns
    /\ scanned = None
    /\ detection = NoResult
    /\ dpc = "off"

IdleScan ==
    /\ tree = << >>
    /\ walk = [IdleWalk EXCEPT !.pc = "off"]
    /\ visits = [dirs |-> <<>>, failed |-> FALSE]
    /\ summary = [op |-> "off"]

IdleRegistry == InitRegistry

\* the cleaner, one caller at a time
Init == InitFs /\ IdleContent /\ IdleDetect /\ IdleScan /\ IdleRegistry
Next ==
    \/ \E p \in Procs, file_path \in CleanTargets : Clean(p, file_path)
    \/ \E p \in Procs : ReadAndClean(p)
    \/ \E p \in Procs : CreateBackupEnter(p)
    \/ \E p \in Procs : CreateDirAll(p)
    \/ \E p \in Procs : CopyToBackup(p)
    \/ \E p \in Procs : WriteCreate(p)
    \/ \E p \in Procs : WriteAll(p)
Spec == Init /\ [][Next]_vars

\* the cleaner called from two threads: clean(&self) takes no lock, and each
\* filesystem call of one thread may fall between two of the other
InitCc == InitConcurrent /\ IdleContent /\ IdleDetect /\ IdleScan /\ IdleRegistry
NextCc ==
    \/ \E p \in Procs, file_path \in ConcurrentTargets : Clean(p, file_path)
    \/ \E p \in Procs : ReadAndClean(p)
    \/ \E p \in Procs : CreateBackupEnter(p)
    \/ \E p \in Procs : CreateDirAll(p)
    \/ \E p \in Procs : CopyToBackup(p)
    \/ \E p \in Procs : WriteCreate(p)
    \/ \E p \in Procs : WriteAll(p)
SpecConcurrent == InitCc /\ [][NextCc]_vars

\* clean_file_content as a function of its input
InitC == InitContent /\ IdleFs /\ IdleDetect /\ IdleScan /\ IdleRegistry
NextC == CleanFileContent
SpecContent == InitC /\ [][NextC]_vars

\* the detector: patterns are appended, then a file is classified
InitD == InitDetect /\ IdleFs /\ IdleContent /\ IdleScan /\ IdleRegistry
NextD ==
    \/ \E pattern \in CustomPatterns : add_pattern(pattern)
    \/ detect
SpecDetect == InitD /\ [][NextD]_vars

\* the scanners: one scan of the tree, by FileSystemScanner, by the engine or
\* through the C API
InitS == InitScan /\ IdleFs /\ IdleContent /\ IdleDetect /\ IdleRegistry
NextS ==
    \/ \E path \in ScanTargets, options \in ScanOptions : scan(path, options)
    \/ scan_directory
    \/ next_entry
    \/ end_directory
    \/ \E path \in ScanTargets : engine_scan_file(path)
    \/ \E path \in ScanTargets : engine_scan_directory(path)
    \/ \E dir_path \in {None} \cup {Some(path) : path \in ScanTargets} :
           umbrella_scan_directory(dir_path)
    \/ \E file_path \in {None} \cup {Some(path) : path \in ScanTargets} :
           umbrella_scan_file(file_path)
SpecScan == InitS /\ [][NextS]_vars

\* FileSystemScanner::scan runs in one thread, which takes its next step
\* whenever it has one
SpecScanLive ==
    SpecScan /\ WF_vars(scan_directory \/ next_entry \/ end_directory)

\* one CommandRegistry and the calls its owner makes on it
InitR == InitRegistry /\ IdleFs /\ IdleContent /\ IdleDetect /\ IdleScan
NextR ==
    \/ \E command \in Commands : register(command)
    \/ \E name \in CommandNames : deregister(name)
    \/ list_commands
SpecRegistry == InitR /\ [][NextR]_vars

-----------------------------------------------------------------------------
(* What the claims speak of *)

Markers == {os_system, subprocess_call, eval_paren, exec_paren}

\* text holds marker m at some position, letter case apart
holds_marker(text, m) ==
    \E i \in 0..(Len(text) - Len(m)) :
        \A k \in 1..Len(m) : char_to_lowercase(text[i + k]) = m[k]

has_marker(text) == \E m \in Markers : holds_marker(text, m)

\* no line of the content holds a marker
marker_free(content) ==
    \A i \in 1..Len(lines(content)) : ~has_marker(lines(content)[i])

\* the extension of the path is one of py, mel, ma, mb, letter case apart
supported(path) ==
    /\ extension(path).some
    /\ \E e \in {ext_py, ext_mel, ext_ma, ext_mb} :
           /\ Len(e) = Len(extension(path).val)
           /\ \A k \in 1..Len(e) : char_to_lowercase(extension(path).val[k]) = e[k]

InCall(p) == call[p].pc \notin {"off", "idle"}
Done(p) == call[p].pc = "done"
Returned(p, status) ==
    Done(p) /\ call[p].result.ok /\ call[p].result.status = status

\* the file at path is as it was when the call of p began
same_as_before(p, path) ==
    IF path \in DOMAIN pre[p].files
    THEN path \in DOMAIN files /\ files[path] = pre[p].files[path]
    ELSE path \notin DOMAIN files

\* the call of p has written nothing: no file and no directory differs
nothing_written(p) == files = pre[p].files /\ dirs = pre[p].dirs

\* the path the cleaned content is written to, as the claims describe it
target_of(p) ==
    IF call[p].options.in_place THEN call[p].file_path
    ELSE Path(call[p].file_path.dir, file_stem(call[p].file_path) \o <<".">> \o ext_cleaned)

backup_failure_messages ==
    {"Source file does not exist", "Failed to create backup directory",
     "Failed to create backup"}

\* the records the claim expects for the lines ls: the prefix and the line
\* for a line that holds a marker, the line itself otherwise, each ended by LF
expected_output(ls) ==
    LET rec(i) == IF has_marker(ls[i]) THEN RemovedPrefix \o ls[i] \o <<LF>>
                  ELSE ls[i] \o <<LF>>
        cat[i \in 0..Len(ls)] == IF i = 0 THEN <<>> ELSE cat[i - 1] \o rec(i)
    IN  cat[Len(ls)]

\* the neutralized content of the file the call of p began with
neutralized(p) == expected_output(lines(pre[p].files[call[p].file_path]))

\* C1: with create_backup set, whenever the target (the file itself, or the
\* sibling) differs from what it was at the start of the call, the backup has
\* already been completed and holds the original content; and a call that
\* ends because the backup could not be created returns an error and leaves
\* the original file as it was.
C1_BackupBeforeWrite ==
    \A p \in Procs :
        (InCall(p) /\ call[p].options.create_backup) =>
            /\ (~same_as_before(p, target_of(p)) =>
                    /\ call[p].backup_path.some
                    /\ call[p].backup_path.val \in DOMAIN files
                    /\ files[call[p].backup_path.val] = pre[p].files[call[p].file_path])
            /\ (Done(p) /\ ~call[p].result.ok
                  /\ call[p].result.message \in backup_failure_messages =>
                    /\ same_as_before(p, call[p].file_path)
                    /\ same_as_before(p, target_of(p)))
            /\ (Done(p) /\ call[p].result.ok /\ ~call[p].backup_path.some =>
                    same_as_before(p, target_of(p)))

\* C1 witness: a call with create_backup has changed its target after backing
\* the original up
C1_Witness ==
    \E p \in Procs :
        /\ InCall(p) /\ call[p].options.create_backup
        /\ ~same_as_before(p, target_of(p))
        /\ call[p].backup_path.some

\* C2 as claimed: a clean in place that runs on the output of an earlier
\* clean in place of the same file, and returns Ok, returns AlreadyClean and
\* leaves the content as the earlier clean left it.
C2_Idempotent ==
    \A p \in Procs :
        (/\ Done(p) /\ call[p].result.ok
         /\ call[p].options.in_place
         /\ call[p].prev.valid
         /\ call[p].prev.file_path = call[p].file_path
         /\ call[p].prev.in_place
         /\ call[p].prev.result.ok
         /\ call[p].prev.result.status \in {"Success", "AlreadyClean"}
         /\ call[p].file_path \in DOMAIN pre[p].files
         /\ call[p].prev.after = Some(pre[p].files[call[p].file_path]))
        => /\ call[p].result.status = "AlreadyClean"
           /\ files[call[p].file_path] = call[p].prev.after.val

\* C3: a call on a supported, existing, readable file none of whose lines
\* holds a marker never goes past the read, returns AlreadyClean without a
\* backup path, and leaves every file and directory as it was.
C3_AlreadyCleanNoWrites ==
    \A p \in Procs :
        (/\ InCall(p)
         /\ supported(call[p].file_path)
         /\ call[p].file_path \in DOMAIN pre[p].files
         /\ marker_free(pre[p].files[call[p].file_path]))
        => /\ call[p].pc \in {"read", "done"}
           /\ nothing_written(p)
           /\ log[p] = <<>>
           /\ (Done(p) /\ call[p].result.ok =>
                   call[p].result = Ok("AlreadyClean", None))

\* C3 witness: a call on a marker-free file has returned AlreadyClean
C3_Witness ==
    \E p \in Procs :
        /\ Returned(p, "AlreadyClean")
        /\ marker_free(pre[p].files[call[p].file_path])
        /\ call[p].options.create_backup

\* C4: a call that returns Success with create_backup set returns a backup
\* path, the file of that path exists, and its content is the content the
\* cleaned file had when the call began.
C4_BackupIsOriginal ==
    \A p \in Procs :
        (Returned(p, "Success") /\ call[p].options.create_backup) =>
            /\ call[p].result.backup_path.some
            /\ call[p].result.backup_path.val \in DOMAIN files
            /\ files[call[p].result.backup_path.val] = pre[p].files[call[p].file_path]

\* C4 witness: a Success with a backup, the target rewritten in place
C4_Witness ==
    \E p \in Procs :
        /\ Returned(p, "Success") /\ call[p].options.create_backup
        /\ call[p].options.in_place
        /\ files[call[p].file_path] # pre[p].files[call[p].file_path]

\* C5 as claimed: a backup is never overwritten, so across any sequence of
\* calls, when a call returns Success every backup completed so far is still
\* in its file, with the content it was made with.
C5_BackupNeverOverwritten ==
    \A p \in Procs :
        Returned(p, "Success") =>
            \A b \in backups : b.path \in DOMAIN files /\ files[b.path] = b.content

\* C8: a call on a path whose extension is not supported, or at which there
\* is no file, returns Ok with status Failed and no backup path at its first
\* step, and leaves every file and directory as it was.
C8_UnsupportedOrMissing ==
    \A p \in Procs :
        (InCall(p) /\ (~supported(call[p].file_path)
                         \/ call[p].file_path \notin DOMAIN pre[p].files))
        => /\ Done(p)
           /\ call[p].result = Ok("Failed", None)
           /\ nothing_written(p)
           /\ log[p] = <<>>

\* C8 witness: Failed for an unsupported extension on a file that exists and
\* holds a marker
C8_Witness ==
    \E p \in Procs :
        /\ Returned(p, "Failed")
        /\ ~supported(call[p].file_path)
        /\ call[p].file_path \in DOMAIN files
        /\ ~marker_free(files[call[p].file_path])

C6_LineCountPreserved ==
    stage = "cleaned" =>
        Len(lines(out.cleaned_content)) = Len(lines(in_content))

\* C6 witness: a text of several lines, some neutralized and some kept
C6_Witness ==
    /\ stage = "cleaned"
    /\ Len(lines(in_content)) >= 2
    /\ \E i, j \in 1..Len(lines(in_content)) :
           /\ has_marker(lines(in_content)[i])
           /\ ~has_marker(lines(in_content)[j]) /\ lines(in_content)[j] # <<>>

\* C7: the output is, line for line and in the order of the input, the prefix
\* followed by the line's text for a line that holds a marker (letter case
\* apart) and the line's text for every other line, each ended by LF; and
\* was_modified is set exactly when some line holds a marker.
C7_LineByLine ==
    stage = "cleaned" =>
        /\ out.cleaned_content = expected_output(lines(in_content))
        /\ out.was_modified <=> ~marker_free(in_content)

\* C7 witness: a marker not in lower case, on the second of three lines
C7_Witness ==
    /\ stage = "cleaned"
    /\ Len(lines(in_content)) = 3
    /\ has_marker(lines(in_content)[2])
    /\ \A m \in Markers : ~contains(lines(in_content)[2], m)
    /\ ~has_marker(lines(in_content)[1]) /\ ~has_marker(lines(in_content)[3])
    /\ out.was_modified

\* text holds t at some position, letter case apart
holds_text(text, t) ==
    \E i \in 0..(Len(text) - Len(t)) :
        \A k \in 1..Len(t) : char_to_lowercase(text[i + k]) = char_to_lowercase(t[k])

\* some pattern of the catalog is held by some line of the content
some_match(pats, content) ==
    \E i \in 1..Len(lines(content)), j \in 1..Len(pats) :
        holds_text(lines(content)[i], pats[j].pattern)

\* C10 as claimed: for every result of detect, whatever was appended to the
\* catalog, threat_level is None exactly when no pattern matched a line,
\* exactly when confidence is 1.0; and confidence is 0.8 when a pattern matched.
C10_NoneIffNoMatch ==
    (dpc = "done" /\ detection.ok) =>
        LET matched == some_match(patterns, scanned.val)
        IN  /\ (detection.val.threat_level = "None") <=> ~matched
            /\ ~matched <=> (detection.val.confidence = CleanConfidence)
            /\ matched => detection.val.confidence = MatchConfidence

\* the 1-based numbers of the lines of the content that hold some pattern
matched_lines(pats, content) ==
    LET ls == lines(content)
    IN  {i \in 1..Len(ls) : \E j \in 1..Len(pats) : holds_text(ls[i], pats[j].pattern)}

\* the patterns (by position in the catalog) held by some line of the content
matched_patterns(pats, content) ==
    LET ls == lines(content)
    IN  {j \in 1..Len(pats) : \E i \in 1..Len(ls) : holds_text(ls[i], pats[j].pattern)}

\* C11 as claimed: with the default catalog, a file whose N-th line is
\* os.system('rm -rf /') and whose other lines are benign is reported with a
\* threat level above None, line_numbers = [N] and confidence 0.8.
C11_SystemCallDetected ==
    (dpc = "done" /\ detection.ok /\ patterns = default_patterns) =>
        LET ls == lines(scanned.val)
        IN  \A N \in 1..Len(ls) :
                (/\ ls[N] = os_system_rm
                 /\ \A i \in 1..Len(ls) : i # N => ls[i] \in {<<>>, <<"x">>})
                => /\ detection.val.threat_level # "None"
                   /\ detection.val.line_numbers = <<N>>
                   /\ detection.val.confidence = MatchConfidence

\* the total order None < Low < Medium < High < Critical
ThreatLevels == <<"None", "Low", "Medium", "High", "Critical">>
level_rank(level) == CHOOSE i \in 1..Len(ThreatLevels) : ThreatLevels[i] = level

\* the greatest of a set of levels, None for the empty set
max_level(S) ==
    IF S = {} THEN "None"
    ELSE CHOOSE l \in S : \A m \in S : level_rank(m) <= level_rank(l)

reversed(s) == [i \in 1..Len(s) |-> s[Len(s) + 1 - i]]

\* the lines ls as the content of a file, each ended by LF
joined(ls) ==
    LET cat[i \in 0..Len(ls)] == IF i = 0 THEN <<>> ELSE cat[i - 1] \o ls[i] \o <<LF>>
    IN  cat[Len(ls)]

\* C12: the threat_level of every result of detect is the greatest level,
\* under None < Low < Medium < High < Critical, among the patterns held (letter
\* case apart) by some line of the file, None when there is none; and detect
\* gives the same level with the catalog in reverse order and with the lines
\* of the file in reverse order.
C12_MaxThreatLevel ==
    (dpc = "done" /\ detection.ok) =>
        LET content == scanned.val
            level == detection.val.threat_level
        IN  /\ level = max_level({patterns[j].threat_level :
                                     j \in matched_patterns(patterns, content)})
            /\ detect_content(reversed(patterns), content).threat_level = level
            /\ detect_content(patterns, joined(reversed(lines(content)))).threat_level
                   = level

\* C12 witness: a line holding a Critical pattern is followed by a line that
\* holds only a pattern of a lower level above None; the result is Critical.
C12_Witness ==
    /\ dpc = "done" /\ detection.ok
    /\ Len(lines(scanned.val)) = 2
    /\ \E j \in 1..Len(patterns) :
           /\ patterns[j].threat_level = "Critical"
           /\ holds_text(lines(scanned.val)[1], patterns[j].pattern)
    /\ \E j \in 1..Len(patterns) :
           /\ patterns[j].threat_level \in {"Low", "Medium"}
           /\ holds_text(lines(scanned.val)[2], patterns[j].pattern)
    /\ \A j \in 1..Len(patterns) :
           holds_text(lines(scanned.val)[2], patterns[j].pattern)
               => patterns[j].threat_level # "Critical"
    /\ detection.val.threat_level = "Critical"

\* C13 as claimed: line_numbers of every result of detect is strictly
\* ascending, so without a repeated element, and holds exactly the 1-based
\* numbers of the lines on which at least one pattern matched.
C13_LineNumbersOrderedSet ==
    (dpc = "done" /\ detection.ok) =>
        LET ln == detection.val.line_numbers
        IN  /\ \A i \in 1..(Len(ln) - 1) : ln[i] < ln[i + 1]
            /\ {ln[i] : i \in 1..Len(ln)} = matched_lines(patterns, scanned.val)

\* the extension ext is in the list, letter case apart
extension_listed(extensions, ext) ==
    \E i \in 1..Len(extensions) :
        /\ Len(extensions[i]) = Len(ext)
        /\ \A k \in 1..Len(ext) :
               char_to_lowercase(extensions[i][k]) = char_to_lowercase(ext[k])

\* the file's extension is both in include_extensions and in exclude_extensions
in_both(file_path, options) ==
    LET e == extension(as_path(file_path))
    IN  /\ e.some
        /\ extension_listed(options.include_extensions, e.val)
        /\ extension_listed(options.exclude_extensions, e.val)

\* the files of the tree
tree_files == {q \in DOMAIN tree : tree[q].kind = "file"}

\* the last component of each path of a sequence of paths
names_of(paths) == {paths[i][Len(paths[i])] : i \in 1..Len(paths)}

\* C14: under the options of the scan, should_include_file is false for every
\* file whose extension, letter case apart, is in both include_extensions and
\* exclude_extensions, and no such file is among the files collected or
\* returned by FileSystemScanner::scan.
C14_ExclusionOverridesInclusion ==
    (walk.pc \notin {"off", "idle"}) =>
        /\ \A f \in tree_files :
               in_both(f, walk.options) => ~should_include_file(f, walk.options)
        /\ \A i \in 1..Len(walk.files) : ~in_both(walk.files[i], walk.options)
        /\ walk.result.ok =>
               \A i \in 1..Len(walk.result.files) :
                   ~in_both(walk.result.files[i], walk.options)

\* C14 witness: a scan of r has returned files, and a.py, whose extension is
\* listed in both (in another letter case in one of them), is not among them
C14_Witness ==
    /\ walk.pc = "done" /\ walk.result.ok
    /\ walk.path = <<name_r>>
    /\ in_both(<<name_r, a_py>>, walk.options)
    /\ ext_py \notin {walk.options.include_extensions[i] :
                         i \in 1..Len(walk.options.include_extensions)}
    /\ walk.result.files # <<>>
    /\ a_py \notin names_of(walk.result.files)

\* the directories of the tree below path, symbolic links not followed
real_dirs_under(path) ==
    {d \in DOMAIN tree : /\ tree[d].kind = "dir"
                         /\ Len(d) > Len(path)
                         /\ SubSeq(d, 1, Len(path)) = path}

\* C15: a scan that returns a ScanResult has counted no directory for a
\* single file; for a directory it has entered that directory alone when
\* recursive is false, and that directory and every directory below it when
\* recursive is true (exactly those when links are not followed); and
\* directories_scanned is the number of directories entered, no path twice.
C15_RecursiveIffOption ==
    (walk.pc = "done" /\ walk.result.ok) =>
        LET entered == {visits.dirs[i] : i \in 1..Len(visits.dirs)}
            below == real_dirs_under(walk.path)
        IN  IF is_file(walk.path)
            THEN walk.result.directories_scanned = 0 /\ entered = {}
            ELSE /\ walk.result.directories_scanned = Cardinality(entered)
                 /\ Len(visits.dirs) = Cardinality(entered)
                 /\ ~walk.options.recursive =>
                        /\ entered = {walk.path}
                        /\ walk.result.directories_scanned = 1
                 /\ walk.options.recursive => ({walk.path} \cup below) \subseteq entered
                 /\ (walk.options.recursive /\ ~walk.options.follow_symlinks) =>
                        /\ entered = {walk.path} \cup below
                        /\ walk.result.directories_scanned = 1 + Cardinality(below)

\* C15 witness: a non-recursive scan of r, which has subdirectories, returned
\* with one directory counted
C15_Witness ==
    /\ walk.pc = "done" /\ walk.result.ok
    /\ walk.path = <<name_r>>
    /\ ~walk.options.recursive
    /\ real_dirs_under(walk.path) # {}
    /\ walk.result.directories_scanned = 1

\* C16: with follow_symlinks false, every scan under way comes to its end,
\* and has then entered no directory through a symbolic link.
C16_NoDescentThroughLinks ==
    (walk.pc \in {"scan_directory", "entries"} /\ ~walk.options.follow_symlinks)
        ~> (/\ walk.pc = "done"
            /\ \A i \in 1..Len(visits.dirs) :
                   /\ ~is_symlink(visits.dirs[i])
                   /\ visits.dirs[i] \in DOMAIN tree)

\* C16 witness: a recursive scan of r with follow_symlinks false has returned;
\* it entered s, which holds the link l back to r, and did not enter l
C16_Witness ==
    /\ walk.pc = "done" /\ walk.result.ok
    /\ walk.path = <<name_r>>
    /\ walk.options.recursive /\ ~walk.options.follow_symlinks
    /\ is_symlink(<<name_r, name_s, name_l>>)
    /\ is_dir(<<name_r, name_s, name_l>>)
    /\ \E i \in 1..Len(visits.dirs) : visits.dirs[i] = <<name_r, name_s>>
    /\ \A i \in 1..Len(visits.dirs) : visits.dirs[i] # <<name_r, name_s, name_l>>

\* C17: a scan during which a directory or a directory entry could not be
\* read returns an error, which carries no list of files, whatever it had
\* collected before.
C17_FailFast ==
    (walk.pc = "done" /\ visits.failed) =>
        /\ ~walk.result.ok
        /\ "files" \notin DOMAIN walk.result

\* C17 witness: a read failed in a directory below the one the scan began
\* in, after a file had been collected, and the scan returned an error
C17_Witness ==
    /\ walk.pc = "done" /\ visits.failed
    /\ Len(visits.dirs) >= 2
    /\ walk.files # <<>>
    /\ ~walk.result.ok

\* the files FileSystemScanner::scan finds at path under ScanOptions::default
locator_files(path) ==
    {f \in tree_files :
        /\ Len(f) >= Len(path) /\ SubSeq(f, 1, Len(path)) = path
        /\ should_include_file(f, default_scan_options)}

\* the files among fs for which detect, with the default catalog, reports a
\* threat level above None
classifier_threats(fs) ==
    {f \in fs : detect_content(default_patterns, tree[f].content).threat_level # "None"}

\* C18 as claimed: the summary of AntivirusEngine::scan_file for a file, and
\* of scan_directory for a directory, has files_scanned equal to the number
\* of files the Locator finds at that path and threats_found equal to the
\* number of those files the Classifier reports a threat for.
C18_EngineSummaryFromPath ==
    (\/ summary.op = "scan_file" /\ is_file(summary.path.val)
     \/ summary.op = "scan_directory" /\ is_dir(summary.path.val)) =>
        /\ summary.ok
        /\ summary.files_scanned = Cardinality(locator_files(summary.path.val))
        /\ summary.threats_found =
               Cardinality(classifier_threats(locator_files(summary.path.val)))

\* path is a directory that exists and has no entries
is_empty_dir(path) == is_dir(path) /\ metadata(path).val.listing = <<>>

\* C19 as claimed: a scan of an existing empty directory, with no read
\* failing, succeeds with no file and no threat: FileSystemScanner::scan
\* returns a ScanResult without files, AntivirusEngine::scan_directory and
\* umbrella_scan_directory report files_scanned = 0 and threats_found = 0.
C19_EmptyDirectory ==
    /\ (walk.pc = "done" /\ is_empty_dir(walk.path) /\ ~visits.failed) =>
           walk.result.ok /\ walk.result.files = <<>>
    /\ (/\ summary.op \in {"scan_directory", "umbrella_scan_directory"}
        /\ summary.path.some
        /\ is_empty_dir(summary.path.val)) =>
           /\ summary.ok
           /\ summary.files_scanned = 0
           /\ summary.threats_found = 0

\* C20 as claimed: a clean() call that got past its can_clean and exists
\* checks returns an error only when the backup could not be made, and then
\* the target is as it was; a failure to read the file or to write the
\* cleaned content does not end the call with an error.
C20_OnlyBackupAborts ==
    \A p \in Procs :
        (Done(p) /\ ~call[p].result.ok) =>
            /\ call[p].result.message \in backup_failure_messages
            /\ same_as_before(p, target_of(p))

\* C21 as claimed: at every point of a clean() call on an existing supported
\* file, the target holds either what it held when the call began (or is
\* absent as it was then) or the complete neutralized content; it is never
\* empty or partly written.
C21_AtomicPerFile ==
    \A p \in Procs :
        (/\ InCall(p)
         /\ supported(call[p].file_path)
         /\ call[p].file_path \in DOMAIN pre[p].files) =>
            \/ same_as_before(p, target_of(p))
            \/ /\ target_of(p) \in DOMAIN files
               /\ files[target_of(p)] = neutralized(p)

\* the sibling a clean with in_place = false writes for the source path
output_path(file_path) ==
    Path(file_path.dir, file_stem(file_path) \o <<".">> \o ext_cleaned)

\* C28 as claimed: with in_place = false, two calls that each returned
\* Success for two distinct supported files of one directory wrote two
\* distinct output files, and the output of the first is still as that call
\* left it.
C28_OutputPathInjective ==
    \A p \in Procs :
        LET prev == call[p].prev
        IN  (/\ Returned(p, "Success")
             /\ ~call[p].options.in_place
             /\ prev.valid /\ prev.result.ok /\ prev.result.status = "Success"
             /\ ~prev.in_place
             /\ prev.file_path # call[p].file_path
             /\ prev.file_path.dir = call[p].file_path.dir) =>
                /\ write_target(prev.file_path, call[p].options)
                       # write_target(call[p].file_path, call[p].options)
                /\ same_as_before(p, output_path(prev.file_path))

\* C29 as claimed: every line clean_file_content neutralizes is a line on
\* which detect, with the default catalog, records a match; so a content for
\* which detect reports the level None comes back from clean_file_content
\* unmodified (clean reports AlreadyClean).
C29_MarkersWithinCatalog ==
    (stage = "cleaned") =>
        LET ls == lines(in_content)
            d == detect_content(default_patterns, in_content)
        IN  /\ \A i \in 1..Len(ls) :
                   is_suspicious_line(ls[i]) =>
                       \E k \in 1..Len(d.line_numbers) : d.line_numbers[k] = i
            /\ d.threat_level = "None" => ~out.was_modified

\* C30 as claimed: when include_extensions is not empty, every file of a
\* ScanResult has an extension, and that extension is, letter case apart, in
\* include_extensions and not in exclude_extensions.
C30_OnlyIncludedExtensions ==
    (walk.pc = "done" /\ walk.result.ok /\ walk.options.include_extensions # <<>>) =>
        \A i \in 1..Len(walk.result.files) :
            LET e == extension(as_path(walk.result.files[i]))
            IN  /\ e.some
                /\ extension_listed(walk.options.include_extensions, e.val)
                /\ ~extension_listed(walk.options.exclude_extensions, e.val)

\* the paths met below dir_path, links followed as the system resolves them
RECURSIVE paths_below(_)
paths_below(dir_path) ==
    IF ~is_dir(dir_path) THEN {}
    ELSE LET es == {read_dir(dir_path)[i] : i \in 1..Len(read_dir(dir_path))}
         IN  es \cup UNION {paths_below(e) : e \in es}

\* the files of the kinds the C API scans that lie below root with no
\* unreadable path on the way from root to the file, both included
classifiable(root, unreadable) ==
    {f \in paths_below(root) :
        /\ is_file(f)
        /\ LET e == extension(as_path(f))
           IN  /\ e.some
               /\ \E x \in c_api_extensions : extension_listed(<<x>>, e.val)
        /\ \A n \in Len(root)..Len(f) : SubSeq(f, 1, n) \notin unreadable}

\* the number of threat_patterns the content of the file holds, letter case apart
threats_in(f) ==
    Cardinality({i \in 1..Len(threat_patterns) :
                    holds_text(metadata(f).val.content, threat_patterns[i])})

RECURSIVE total_threats(_)
total_threats(fs) ==
    IF fs = {} THEN 0
    ELSE LET f == CHOOSE x \in fs : TRUE
         IN  threats_in(f) + total_threats(fs \ {f})

\* C24: a scan of a directory through umbrella_scan_directory, whichever
\* files and directories cannot be read, counts every file it can reach and
\* read, and those alone: files_scanned is their number and threats_found the
\* sum of their threats; an unreadable file or directory adds nothing and
\* stops nothing.
C24_FailureScopedToItem ==
    (/\ summary.op = "umbrella_scan_directory"
     /\ summary.path.some
     /\ is_dir(summary.path.val)) =>
        LET fs == classifiable(summary.path.val, summary.unreadable)
        IN  /\ summary.files_scanned = Cardinality(fs)
            /\ summary.threats_found = total_threats(fs)

\* C24 witness: in a scan of r, the file a.py and the directory s cannot be
\* read, and a.txt is counted all the same
C24_Witness ==
    /\ summary.op = "umbrella_scan_directory"
    /\ summary.path = Some(<<name_r>>)
    /\ summary.unreadable = {<<name_r, a_py>>, <<name_r, name_s>>}
    /\ summary.files_scanned = 1
    /\ summary.threats_found = 0

\* C26 as claimed: the recursion of scan_directory_for_threats is limited so
\* that it does not go round a loop: it enters no path that leads back to a
\* directory it is already scanning.
C26_RecursionDoesNotLoop ==
    (summary.op = "umbrella_scan_directory" /\ summary.path.some) =>
        \A d \in summary.entered :
            \A n \in Len(summary.path.val)..(Len(d) - 1) :
                resolve(<<>>, SubSeq(d, 1, n), 0) # resolve(<<>>, d, 0)

\* C27 as claimed: a result of umbrella_scan_file or umbrella_scan_directory
\* whose threats_found is -1 has files_scanned = 0.
C27_ErrorMeansNothingScanned ==
    (/\ summary.op \in {"umbrella_scan_file", "umbrella_scan_directory"}
     /\ summary.threats_found = -1) =>
        summary.files_scanned = 0

\* the name call k of ops is about
name_of(k) ==
    IF ops[k].op = "register" THEN ops[k].command.name ELSE ops[k].name

\* the calls among the first k that registered name with success and were
\* followed, among the first k, by no successful deregister of it
live_registrations(name, k) ==
    {i \in 1..k :
        /\ ops[i].op = "register" /\ ops[i].command.name = name /\ ops[i].result.ok
        /\ \A j \in (i + 1)..k :
               ~(ops[j].op = "deregister" /\ ops[j].name = name /\ ops[j].result.ok)}

registered_after(k) == {name \in CommandNames : live_registrations(name, k) # {}}

\* C25: after any sequence of calls on a CommandRegistry, register succeeded
\* iff the name was not registered when it was called, deregister succeeded
\* iff it was, list_commands returned, each once, the names registered with
\* success and not deregistered since, and the registry holds under each such
\* name the command of that registration: a failed call changed nothing.
C25_RegistryFollowsSuccessfulCalls ==
    /\ \A k \in 1..Len(ops) :
           /\ ops[k].op = "register" =>
                  (ops[k].result.ok <=> name_of(k) \notin registered_after(k - 1))
           /\ ops[k].op = "deregister" =>
                  (ops[k].result.ok <=> name_of(k) \in registered_after(k - 1))
           /\ ops[k].op = "list_commands" =>
                  /\ {ops[k].names[i] : i \in DOMAIN ops[k].names} = registered_after(k - 1)
                  /\ Len(ops[k].names) = Cardinality(registered_after(k - 1))
    /\ DOMAIN commands = registered_after(Len(ops))
    /\ \A name \in DOMAIN commands :
           \A i \in live_registrations(name, Len(ops)) : commands[name] = ops[i].command

\* C25 witness: a name is registered, a second command of that name is
\* refused, a name never registered is refused by deregister, and the list is
\* the first name alone, still bound to the first command
C25_Witness ==
    /\ Len(ops) = 4
    /\ ops[1].op = "register" /\ ops[1].result.ok
    /\ ops[2].op = "register" /\ ~ops[2].result.ok
    /\ ops[2].command.name = ops[1].command.name
    /\ ops[2].command.id # ops[1].command.id
    /\ ops[3].op = "deregister" /\ ~ops[3].result.ok
    /\ ops[4].op = "list_commands" /\ ops[4].names = <<ops[1].command.name>>
    /\ commands[ops[1].command.name] = ops[1].command

\* C22 as claimed: two clean() calls never operate on one file path at the
\* same time: while a call on a path is under way, between its entry and its
\* return, no other call on that path is under way.
C22_OneCallPerPath ==
    \A p, q \in Procs :
        (/\ p # q
         /\ InCall(p) /\ ~Done(p)
         /\ InCall(q) /\ ~Done(q)) => call[p].file_path # call[q].file_path

\* C23: when clean() calls share a backup directory, no call fails in
\* create_dir_all because the directory is there already, and a call that goes
\* on to copy its backup finds the directory, whoever created it.
C23_BackupDirCreationIdempotent ==
    \A p \in Procs :
        /\ (Done(p) /\ ~call[p].result.ok
               /\ call[p].result.message = "Failed to create backup directory")
              => call[p].result.io # "AlreadyExists"
        /\ call[p].pc = "copy" => call[p].backup_dir \in dirs

\* C23 witness: both callers found the shared backup directory missing, both
\* called create_dir_all, and both went on to complete a backup in it
C23_Witness ==
    /\ call[1].backup_dir = call[2].backup_dir
    /\ \A p \in Procs :
           /\ \E i \in 1..Len(log[p]) :
                  log[p][i].op = "mkdir" /\ log[p][i].dir = call[p].backup_dir
           /\ \E i \in 1..Len(log[p]) : log[p][i].op = "copy" /\ log[p][i].done

====
